---- MODULE Spec2Model ----
(***************************************************************************)
(* Model of the 2-D Verlet particle engine of src/src/main.rs: the         *)
(* per-particle operations of Entity (update, solve_collision,             *)
(* apply_circle_contraint), App::create_circles, App::update_entities and  *)
(* the simulation part of Window::update.                                  *)
(*                                                                         *)
(* Numbers.  The program computes in f32.  A length (a coordinate, a       *)
(* radius, a distance) is modelled as an integer count of 1/One, a         *)
(* dimensionless factor (a unit-vector component, a mass ratio, a          *)
(* coefficient) as an integer count of 1/QOne, and a squared length as a   *)
(* count of 1/One^2.  Sums and differences are exact; a quotient, a        *)
(* product with a factor and a square root round to the nearest            *)
(* representable value, as the f32 operations do on their finer grid.      *)
(* The value NaN is kept and propagates as in IEEE-754.                    *)
(***************************************************************************)
EXTENDS Integers, Sequences, FiniteSets, TLC

\* ------------------------------------------------------------------ numbers

One == 16
QOne == 4096
NaN == -1000000000

IsNaN(a) == a = NaN

Abs(a) == IF a < 0 THEN -a ELSE a

\* a / b rounded to the nearest integer, ties away from zero (b # 0).
RoundDiv(a, b) ==
    LET n == IF b < 0 THEN -a ELSE a
        d == Abs(b)
    IN  IF n >= 0 THEN (2 * n + d) \div (2 * d)
                  ELSE -((2 * (-n) + d) \div (2 * d))

\* The length written num/den in the source (5., 0.1, 300.).
Lit(num, den) == RoundDiv(num * One, den)

\* The factor written num/den in the source (0.5, 0.75).
QLit(num, den) == RoundDiv(num * QOne, den)

FAdd(a, b) == IF IsNaN(a) \/ IsNaN(b) THEN NaN ELSE a + b

FSub(a, b) == IF IsNaN(a) \/ IsNaN(b) THEN NaN ELSE a - b

\* a < b and a > b of f32: false as soon as one side is NaN.
FLt(a, b) == ~IsNaN(a) /\ ~IsNaN(b) /\ a < b

FGt(a, b) == ~IsNaN(a) /\ ~IsNaN(b) /\ a > b

\* x.powi(2), x * x of a length: a squared length.
FSq(a) == IF IsNaN(a) THEN NaN ELSE a * a

\* The largest r with r * r <= n, found bit by bit; 46340 is the largest
\* integer whose square fits the model checker's integers.
RECURSIVE SqrtBits(_, _, _)
SqrtBits(n, bit, r) ==
    IF bit = 0 THEN r
    ELSE LET c == r + bit
         IN  IF c <= 46340 /\ c * c <= n
             THEN SqrtBits(n, bit \div 2, c)
             ELSE SqrtBits(n, bit \div 2, r)

ISqrt(n) == SqrtBits(n, 32768, 0)

\* f32::sqrt of a squared length: the nearest length.
FSqrt(a) ==
    IF IsNaN(a) THEN NaN
    ELSE LET r == ISqrt(a)
         IN  IF a - r * r > r THEN r + 1 ELSE r

\* length / length: a factor.  0/0 is NaN; x/0 with x # 0 (an infinity)
\* is not representable here and no call of the program produces it.
FDiv(a, b) ==
    IF IsNaN(a) \/ IsNaN(b) THEN NaN
    ELSE IF a = 0 /\ b = 0 THEN NaN
    ELSE RoundDiv(a * QOne, b)

\* factor * x, in the unit of x.
FMul(q, x) == IF IsNaN(q) \/ IsNaN(x) THEN NaN ELSE RoundDiv(q * x, QOne)

\* Pos2 / Vec2 and their operators.
Vec(x, y) == [x |-> x, y |-> y]

VAdd(p, q) == Vec(FAdd(p.x, q.x), FAdd(p.y, q.y))

VSub(p, q) == Vec(FSub(p.x, q.x), FSub(p.y, q.y))

\* Vec2 / f32: a vector of factors.
VDiv(v, d) == Vec(FDiv(v.x, d), FDiv(v.y, d))

\* Vec2 (of factors) * f32 (a length): a vector of lengths.
VScale(n, s) == Vec(FMul(n.x, s), FMul(n.y, s))

VFinite(p) == ~IsNaN(p.x) /\ ~IsNaN(p.y)

\* ---------------------------------------------------------------- constants

\* The population cap.  The source sets 750; the model runs a scaled-down
\* population so that the cap is reached within the frames explored.
CIRCLES_NUMBER == 3

\* Frames explored (Window::frames is an unbounded u64 in the source).
MaxFrames == 16

CIRCLES_MIN_RADIUS == 5
CIRCLES_MAX_RADIUS == 15
SUB_STEPS == 10

\* `for _ in 0..2`: the passes of update_entities one frame really runs.
UPDATE_PASSES == 2

\* `self.frames % 4 == 0`: the caller's spawn cadence.
SPAWN_EVERY == 4

RECT_CANVAS_START == Vec(Lit(50, 1), Lit(50, 1))

RECT_CANVAS_END == Vec(Lit(1050, 1), Lit(550, 1))

CIRCLE_STARTING_POS ==
    Vec(RECT_CANVAS_START.x * 2, RECT_CANVAS_START.y * 2)

GRAVITY == Vec(Lit(0, 1), Lit(1, 10))

\* The radii gen_range(CIRCLES_MIN_RADIUS..=CIRCLES_MAX_RADIUS) is drawn
\* from here: both ends of the range and its middle.
Radii ==
    { Lit(CIRCLES_MIN_RADIUS, 1),
      Lit(CIRCLES_MIN_RADIUS + CIRCLES_MAX_RADIUS, 2),
      Lit(CIRCLES_MAX_RADIUS, 1) }

\* ------------------------------------------------------------------- Entity

\* struct Entity without its rendering fields (shape_id, color).
Entity(id, position, old_position, radius) ==
    [ id           |-> id,
      position     |-> position,
      old_position |-> old_position,
      acceleration |-> Vec(0, 0),
      radius       |-> radius ]

Accelerate(e, acc) == [e EXCEPT !.acceleration = VAdd(@, acc)]

ApplyGravity(e) == Accelerate(e, GRAVITY)

\* update without `self.old_position = self.position`.
UpdateStalePrevious(e) ==
    LET velocity == VSub(e.position, e.old_position)
        e2 == ApplyGravity(e)
        e3 == [e2 EXCEPT !.position =
                   VAdd(VAdd(e2.position, velocity), e2.acceleration)]
    IN  [e3 EXCEPT !.acceleration = Vec(0, 0)]

\* Entity::update: one Verlet step.
Update(e) ==
    LET velocity == VSub(e.position, e.old_position)
        e1 == [e EXCEPT !.old_position = e.position]
        e2 == ApplyGravity(e1)
        e3 == [e2 EXCEPT !.position =
                   VAdd(VAdd(e2.position, velocity), e2.acceleration)]
    IN  [e3 EXCEPT !.acceleration = Vec(0, 0)]

\* solve_collision with the whole of response_coef * (dist - min_dist) as
\* delta (the factor 0.5 left out).
SolveCollisionWhole(self, other) ==
    LET response_coef == QLit(3, 4)
        dist_pos == VSub(self.position, other.position)
        dist2    == FAdd(FSq(dist_pos.x), FSq(dist_pos.y))
        min_dist == FAdd(self.radius, other.radius)
    IN  IF FLt(dist2, FSq(min_dist))
        THEN LET dist == FSqrt(dist2)
                 n    == VDiv(dist_pos, dist)
                 mass_ratio_1 ==
                     FDiv(self.radius, FAdd(self.radius, other.radius))
                 mass_ratio_2 ==
                     FDiv(other.radius, FAdd(self.radius, other.radius))
                 delta == FMul(response_coef, FSub(dist, min_dist))
             IN  << [self EXCEPT !.position =
                         VSub(@, VScale(n, FMul(mass_ratio_2, delta)))],
                    [other EXCEPT !.position =
                         VAdd(@, VScale(n, FMul(mass_ratio_1, delta)))] >>
        ELSE << self, other >>

\* solve_collision with the signs of the two corrections exchanged.
SolveCollisionInward(self, other) ==
    LET response_coef == QLit(3, 4)
        dist_pos == VSub(self.position, other.position)
        dist2    == FAdd(FSq(dist_pos.x), FSq(dist_pos.y))
        min_dist == FAdd(self.radius, other.radius)
    IN  IF FLt(dist2, FSq(min_dist))
        THEN LET dist == FSqrt(dist2)
                 n    == VDiv(dist_pos, dist)
                 mass_ratio_1 ==
                     FDiv(self.radius, FAdd(self.radius, other.radius))
                 mass_ratio_2 ==
                     FDiv(other.radius, FAdd(self.radius, other.radius))
                 delta ==
                     FMul(FMul(QLit(1, 2), response_coef),
                          FSub(dist, min_dist))
             IN  << [self EXCEPT !.position =
                         VAdd(@, VScale(n, FMul(mass_ratio_2, delta)))],
                    [other EXCEPT !.position =
                         VSub(@, VScale(n, FMul(mass_ratio_1, delta)))] >>
        ELSE << self, other >>

\* Entity::solve_collision: <<self, other>> after the call.
SolveCollision(self, other) ==
    LET response_coef == QLit(3, 4)
        dist_pos == VSub(self.position, other.position)
        dist2    == FAdd(FSq(dist_pos.x), FSq(dist_pos.y))
        min_dist == FAdd(self.radius, other.radius)
    IN  IF FLt(dist2, FSq(min_dist))
        THEN LET dist == FSqrt(dist2)
                 n    == VDiv(dist_pos, dist)
                 mass_ratio_1 ==
                     FDiv(self.radius, FAdd(self.radius, other.radius))
                 mass_ratio_2 ==
                     FDiv(other.radius, FAdd(self.radius, other.radius))
                 delta ==
                     FMul(FMul(QLit(1, 2), response_coef),
                          FSub(dist, min_dist))
             IN  << [self EXCEPT !.position =
                         VSub(@, VScale(n, FMul(mass_ratio_2, delta)))],
                    [other EXCEPT !.position =
                         VAdd(@, VScale(n, FMul(mass_ratio_1, delta)))] >>
        ELSE << self, other >>

constraint_center ==
    Vec(RoundDiv(RECT_CANVAS_START.x + RECT_CANVAS_END.x, 2),
        RoundDiv(RECT_CANVAS_START.y + RECT_CANVAS_END.y, 2))

canvas_radius == Lit(300, 1)

\* apply_circle_contraint placing the centre on the canvas circle itself
\* (the radius of the entity left out).
ApplyCircleConstraintNoRadius(e) ==
    LET v    == VSub(constraint_center, e.position)
        dist == FSqrt(FAdd(FSq(v.x), FSq(v.y)))
    IN  IF FGt(dist, FSub(canvas_radius, e.radius))
        THEN LET n == VDiv(v, dist)
             IN  [e EXCEPT !.position =
                     VSub(constraint_center, VScale(n, canvas_radius))]
        ELSE e

\* Entity::apply_circle_contraint.
ApplyCircleConstraint(e) ==
    LET v    == VSub(constraint_center, e.position)
        dist == FSqrt(FAdd(FSq(v.x), FSq(v.y)))
    IN  IF FGt(dist, FSub(canvas_radius, e.radius))
        THEN LET n == VDiv(v, dist)
             IN  [e EXCEPT !.position =
                     VSub(constraint_center,
                          VScale(n, FSub(canvas_radius, e.radius)))]
        ELSE e

\* ---------------------------------------------------------------------- App

\* The spawn position of create_circles:
\* x = CIRCLE_STARTING_POS.x + next_entity_id as f32 * 5. % 500.
SpawnPosition(next_id) ==
    Vec(CIRCLE_STARTING_POS.x + ((next_id * Lit(5, 1)) % Lit(500, 1)),
        CIRCLE_STARTING_POS.y)

\* create_circles returning early only above the cap (> for ==).
CreateCirclesAboveCap(app, radius) ==
    IF Len(app.entities) > CIRCLES_NUMBER
    THEN app
    ELSE LET position == SpawnPosition(app.next_entity_id)
         IN  [ entities |->
                   Append(app.entities,
                          Entity(app.next_entity_id, position, position,
                                 radius)),
               next_entity_id |-> app.next_entity_id + 1 ]

\* create_circles without `self.next_entity_id += 1`.
CreateCirclesSameId(app, radius) ==
    IF Len(app.entities) = CIRCLES_NUMBER
    THEN app
    ELSE LET position == SpawnPosition(app.next_entity_id)
         IN  [ entities |->
                   Append(app.entities,
                          Entity(app.next_entity_id, position, position,
                                 radius)),
               next_entity_id |-> app.next_entity_id ]

\* App::create_circles on app = [entities, next_entity_id], with the radius
\* the generator draws.
CreateCircles(app, radius) ==
    IF Len(app.entities) = CIRCLES_NUMBER
    THEN app
    ELSE LET position == SpawnPosition(app.next_entity_id)
         IN  [ entities |->
                   Append(app.entities,
                          Entity(app.next_entity_id, position, position,
                                 radius)),
               next_entity_id |-> app.next_entity_id + 1 ]

\* entity.solve_collision(entity2) on the entities at a and b.
SolveAt(es, a, b) ==
    LET r == SolveCollision(es[a], es[b])
    IN  [es EXCEPT ![a] = r[1], ![b] = r[2]]

\* The inner loop running over all the entities, not the rest after i.
InnerFirstAll(k) == 1

\* self.entities[i..].split_first_mut(): the first index of the rest.
InnerFirst(k) == k + 1

\* update called right after the pairs, apply_circle_contraint left out.
AfterPairsUpdate == "integrate"

\* The order of update_entities' body for one entity: the pairs, then
\* apply_circle_contraint, then update.
AfterPairs == "confine"

AfterConfine == "integrate"

\* -------------------------------------------------------------------- state

VARIABLES
    frames,          \* Window::frames
    next_entity_id,  \* App::next_entity_id
    entities,        \* App::entities
    pc,              \* where Window::update stands
    steps,           \* passes of update_entities finished in this frame
    i,               \* update_entities: the index of the outer loop (from 1)
    j,               \* update_entities: the index of the inner loop
    log,             \* the calls of the running pass, in order
    last,            \* the last call made
    before           \* entities and next_entity_id before the last call

vars == << frames, next_entity_id, entities, pc, steps, i, j, log, last,
           before >>

App == [entities |-> entities, next_entity_id |-> next_entity_id]

Call(op, a, b) == [op |-> op, a |-> a, b |-> b]

\* A call as the log keeps it, with the entity at a as the call left it.
Event(op, a, b, e) == [op |-> op, a |-> a, b |-> b, e |-> e]

\* App::new and Window::new.
Init ==
    /\ frames = 0
    /\ next_entity_id = 1
    /\ entities = << >>
    /\ pc = "idle"
    /\ steps = 0
    /\ i = 1
    /\ j = 1
    /\ log = << >>
    /\ last = Call("new", 0, 0)
    /\ before = [entities |-> << >>, next_entity_id |-> 1]

\* Window::update up to its loop: the frame is counted and, on every
\* SPAWN_EVERY-th frame, create_circles is called.
Tick ==
    /\ pc = "idle"
    /\ frames < MaxFrames
    /\ frames' = frames + 1
    /\ before' = App
    /\ IF (frames + 1) % SPAWN_EVERY = 0
       THEN /\ \E radius \in Radii :
                   LET app == CreateCircles(App, radius)
                   IN  /\ entities' = app.entities
                       /\ next_entity_id' = app.next_entity_id
            /\ last' = Call("create_circles", 0, 0)
       ELSE /\ UNCHANGED << entities, next_entity_id >>
            /\ last' = Call("frame", 0, 0)
    /\ steps' = 0
    /\ pc' = "loop"
    /\ UNCHANGED << i, j, log >>

\* `for _ in 0..2 { self.app.update_entities(); }`: one more pass begins.
BeginPass ==
    /\ pc = "loop"
    /\ steps < UPDATE_PASSES
    /\ pc' = "outer"
    /\ i' = 1
    /\ log' = << >>
    /\ last' = Call("update_entities", 0, 0)
    /\ before' = App
    /\ UNCHANGED << frames, next_entity_id, entities, steps, j >>

\* The loop of Window::update is over: the frame ends.
EndFrame ==
    /\ pc = "loop"
    /\ steps >= UPDATE_PASSES
    /\ pc' = "idle"
    /\ last' = Call("end_frame", 0, 0)
    /\ before' = App
    /\ UNCHANGED << frames, next_entity_id, entities, steps, i, j, log >>

\* update_entities: `for i in 0..self.entities.len()` takes the next entity.
NextEntity ==
    /\ pc = "outer"
    /\ i <= Len(entities)
    /\ pc' = "inner"
    /\ j' = InnerFirst(i)
    /\ last' = Call("split_first_mut", i, 0)
    /\ before' = App
    /\ UNCHANGED << frames, next_entity_id, entities, steps, i, log >>

\* update_entities returns.
EndPass ==
    /\ pc = "outer"
    /\ i > Len(entities)
    /\ steps' = steps + 1
    /\ pc' = "loop"
    /\ last' = Call("end_pass", 0, 0)
    /\ before' = App
    /\ UNCHANGED << frames, next_entity_id, entities, i, j, log >>

\* `for entity2 in entities { entity.solve_collision(entity2); }`: one call.
SolvePair ==
    /\ pc = "inner"
    /\ j <= Len(entities)
    /\ entities' = SolveAt(entities, i, j)
    /\ j' = j + 1
    /\ log' = Append(log, Event("solve_collision", i, j, entities'[i]))
    /\ last' = Call("solve_collision", i, j)
    /\ before' = App
    /\ UNCHANGED << frames, next_entity_id, pc, steps, i >>

\* The inner loop is over.
EndPairs ==
    /\ pc = "inner"
    /\ j > Len(entities)
    /\ pc' = AfterPairs
    /\ last' = Call("end_pairs", i, 0)
    /\ before' = App
    /\ UNCHANGED << frames, next_entity_id, entities, steps, i, j, log >>

\* entity.apply_circle_contraint().
Confine ==
    /\ pc = "confine"
    /\ entities' = [entities EXCEPT ![i] = ApplyCircleConstraint(@)]
    /\ pc' = AfterConfine
    /\ log' = Append(log, Event("apply_circle_contraint", i, 0, entities'[i]))
    /\ last' = Call("apply_circle_contraint", i, 0)
    /\ before' = App
    /\ UNCHANGED << frames, next_entity_id, steps, i, j >>

\* entity.update(), and the outer loop goes on.
Integrate ==
    /\ pc = "integrate"
    /\ entities' = [entities EXCEPT ![i] = Update(@)]
    /\ i' = i + 1
    /\ pc' = "outer"
    /\ log' = Append(log, Event("update", i, 0, entities'[i]))
    /\ last' = Call("update", i, 0)
    /\ before' = App
    /\ UNCHANGED << frames, next_entity_id, steps, j >>

Next ==
    \/ Tick
    \/ BeginPass
    \/ EndFrame
    \/ NextEntity
    \/ EndPass
    \/ SolvePair
    \/ EndPairs
    \/ Confine
    \/ Integrate

Spec == Init /\ [][Next]_vars

\* ------------------------------------------------- the operations, one call
\* A second specification: two entities drawn from a set of inputs, and one
\* call of solve_collision, apply_circle_contraint or update on them.

\* Directions with rational components: the axes and the 3-4-5 triangles,
\* in fifths.
Directions ==
    { d \in { Vec(x, y) : x, y \in {-5, -4, -3, 0, 3, 4, 5} } :
          d.x * d.x + d.y * d.y = 25 }

\* The distances between the centres of a colliding input: 0 (coincident
\* centres), overlapping for some or all pairs of radii, touching, apart.
\* An overlap is 2 or more, far above the step 1/One of the lengths.
Lengths == {0, 5, 8, 10, 15, 18, 20, 25, 28, 30, 40}

SolveOffsets ==
    { Vec(Lit(l * dir.x, 5), Lit(l * dir.y, 5)) :
          l \in Lengths, dir \in Directions }

\* Inputs of solve_collision: the first entity at rest inside the canvas
\* circle, the second at an offset from it.
SolveInputs ==
    LET p == Vec(Lit(400, 1), Lit(300, 1))
    IN  { << Entity(1, p, p, ra), Entity(2, VAdd(p, o), VAdd(p, o), rb) >> :
             ra \in Radii, rb \in Radii, o \in SolveOffsets }

\* Distances from the centre of the canvas circle: the centre itself, well
\* inside, on each inner circle canvas_radius - radius, on the canvas
\* circle and beyond it.
Distances == {0, 150, 285, 290, 295, 300, 350}

Velocities == { Vec(0, 0), Vec(Lit(2, 1), Lit(-3, 1)), Vec(-1, Lit(1, 2)) }

\* Inputs of apply_circle_contraint and update: the first entity placed
\* around the centre and moving, the second far from it.
ConfineInputs ==
    LET q == Vec(Lit(1200, 1), Lit(300, 1))
    IN  { << Entity(1,
                    VAdd(constraint_center,
                         Vec(Lit(d * dir.x, 5), Lit(d * dir.y, 5))),
                    VSub(VAdd(constraint_center,
                              Vec(Lit(d * dir.x, 5), Lit(d * dir.y, 5))),
                         vel),
                    ra),
             Entity(2, q, q, Lit(CIRCLES_MIN_RADIUS, 1)) >> :
             d \in Distances, dir \in Directions, vel \in Velocities,
             ra \in Radii }

InitUnit ==
    /\ frames = 0
    /\ next_entity_id = 3
    /\ entities \in SolveInputs \cup ConfineInputs
    /\ pc = "unit"
    /\ steps = 0
    /\ i = 1
    /\ j = 2
    /\ log = << >>
    /\ last = Call("new", 0, 0)
    /\ before = [entities |-> entities, next_entity_id |-> 3]

UnitSolve ==
    /\ pc = "unit"
    /\ entities' = SolveAt(entities, 1, 2)
    /\ last' = Call("solve_collision", 1, 2)
    /\ before' = App
    /\ pc' = "done"
    /\ UNCHANGED << frames, next_entity_id, steps, i, j, log >>

UnitConfine ==
    /\ pc = "unit"
    /\ \E k \in 1..2 :
           /\ entities' = [entities EXCEPT ![k] = ApplyCircleConstraint(@)]
           /\ last' = Call("apply_circle_contraint", k, 0)
    /\ before' = App
    /\ pc' = "done"
    /\ UNCHANGED << frames, next_entity_id, steps, i, j, log >>

UnitUpdate ==
    /\ pc = "unit"
    /\ \E k \in 1..2 :
           /\ entities' = [entities EXCEPT ![k] = Update(@)]
           /\ last' = Call("update", k, 0)
    /\ before' = App
    /\ pc' = "done"
    /\ UNCHANGED << frames, next_entity_id, steps, i, j, log >>

NextUnit ==
    \/ UnitSolve
    \/ UnitConfine
    \/ UnitUpdate

SpecUnit == InitUnit /\ [][NextUnit]_vars

\* ------------------------------------------------------------------- claims

\* The squared distance between two points, and products of differences.
D2(p, q) == (p.x - q.x) * (p.x - q.x) + (p.y - q.y) * (p.y - q.y)

Cross(u, v) == u.x * v.y - u.y * v.x

Dot(u, v) == u.x * v.x + u.y * v.y

\* C1: the number of entities never exceeds the cap CIRCLES_NUMBER, and a
\* call of create_circles made with that many entities leaves the entities
\* and next_entity_id as they were.
C1_SpawnCap ==
    /\ Len(entities) <= CIRCLES_NUMBER
    /\ (last.op = "create_circles" /\ Len(before.entities) = CIRCLES_NUMBER)
           => /\ entities = before.entities
              /\ next_entity_id = before.next_entity_id

C1_Witness ==
    /\ last.op = "create_circles"
    /\ Len(before.entities) = CIRCLES_NUMBER
    /\ Len(entities) = CIRCLES_NUMBER

\* C2: when a frame ends, update_entities has run exactly SUB_STEPS (10)
\* times in it.
C2_SubstepCount == last.op = "end_frame" => steps = SUB_STEPS

\* C6: the ids of the entities increase strictly in the order of the
\* collection (so no two are equal), every id is below next_entity_id, and
\* next_entity_id grows by one with a call that adds an entity and by
\* nothing with any other.
C6_IdUnique ==
    /\ \A a, b \in 1..Len(entities) :
           a < b => entities[a].id < entities[b].id
    /\ \A a \in 1..Len(entities) : entities[a].id < next_entity_id
    /\ next_entity_id =
           before.next_entity_id
               + (IF Len(entities) > Len(before.entities) THEN 1 ELSE 0)
    /\ \A a \in 1..Len(before.entities) :
           /\ a <= Len(entities)
           /\ entities[a].id = before.entities[a].id

C6_Witness ==
    /\ last.op = "create_circles"
    /\ Len(before.entities) >= 1
    /\ Len(entities) = Len(before.entities) + 1

\* Whether the logged call ev reads or writes the entity at k.
Involves(ev, k) == ev.a = k \/ (ev.op = "solve_collision" /\ ev.b = k)

\* C9: in a pass of update_entities an entity is integrated (update) at most
\* once, after its own apply_circle_contraint of that pass, and no later
\* call of the pass involves it: its position and old_position stay what
\* update left.  When the pass ends every entity has been integrated.
C9_IntegrateLast ==
    /\ \A p \in 1..Len(log) :
           log[p].op = "update" =>
               /\ \A q \in 1..(p - 1) :
                      ~(log[q].op = "update" /\ log[q].a = log[p].a)
               /\ \E q \in 1..(p - 1) :
                      /\ log[q].op = "apply_circle_contraint"
                      /\ log[q].a = log[p].a
               /\ \A q \in (p + 1)..Len(log) : ~Involves(log[q], log[p].a)
               /\ entities[log[p].a].position = log[p].e.position
               /\ entities[log[p].a].old_position = log[p].e.old_position
    /\ last.op = "end_pass" =>
           \A k \in 1..Len(entities) :
               \E p \in 1..Len(log) : log[p].op = "update" /\ log[p].a = k

C9_Witness ==
    /\ last.op = "end_pass"
    /\ Len(entities) >= 3
    /\ \E p \in 1..Len(log) : log[p].op = "update" /\ log[p].a = 1

\* The calls of solve_collision of the running pass, in order.
SolveCalls == SelectSeq(log, LAMBDA ev : ev.op = "solve_collision")

\* C10: the calls of solve_collision of a pass are made on (a, b) with
\* a < b, in strictly increasing lexicographic order; when the pass ends
\* every pair a < b has had its call, n * (n - 1) / 2 calls in all.
C10_PairCoverage ==
    LET n == Len(entities)
        calls == SolveCalls
    IN  /\ \A p \in 1..Len(calls) :
               /\ 1 <= calls[p].a
               /\ calls[p].a < calls[p].b
               /\ calls[p].b <= n
        /\ \A p \in 1..(Len(calls) - 1) :
               \/ calls[p].a < calls[p + 1].a
               \/ /\ calls[p].a = calls[p + 1].a
                  /\ calls[p].b < calls[p + 1].b
        /\ last.op = "end_pass" =>
               /\ \A a, b \in 1..n :
                      a < b => \E p \in 1..Len(calls) :
                                   calls[p].a = a /\ calls[p].b = b
               /\ 2 * Len(calls) = n * (n - 1)

C10_Witness ==
    /\ last.op = "end_pass"
    /\ Len(entities) >= 3
    /\ Len(SolveCalls) = 3

\* The last call was solve_collision on the two entities of the input.
Solved == last.op = "solve_collision" /\ last.a = 1 /\ last.b = 2

\* What an entity moved by in the last call.
Moved(k) == VSub(entities[k].position, before.entities[k].position)

\* The scenario of C3: two entities of radius 10 with centres 5 apart, and
\* one call of solve_collision on them.
C3_Scenario ==
    /\ Solved
    /\ before.entities[1].radius = Lit(10, 1)
    /\ before.entities[2].radius = Lit(10, 1)
    /\ D2(before.entities[1].position, before.entities[2].position)
           = Lit(5, 1) * Lit(5, 1)

\* Each entity moved by the length `by` straight away from the other, so
\* that the centres are `apart` from each other.
C3_Separated(by, apart) ==
    LET d == VSub(before.entities[1].position, before.entities[2].position)
    IN  /\ VFinite(entities[1].position)
        /\ VFinite(entities[2].position)
        /\ D2(entities[1].position, entities[2].position) = apart * apart
        /\ D2(entities[1].position, before.entities[1].position) = by * by
        /\ D2(entities[2].position, before.entities[2].position) = by * by
        /\ Cross(Moved(1), d) = 0
        /\ Dot(Moved(1), d) > 0
        /\ Cross(Moved(2), d) = 0
        /\ Dot(Moved(2), d) < 0

\* C3 as claimed: in the scenario the distance between the centres grows
\* by 0.75 * 15 = 11.25, each entity moving 5.625 away from the other.
C3_Original ==
    C3_Scenario => C3_Separated(Lit(45, 8), Lit(5, 1) + Lit(45, 4))

\* C3 as amended: in the scenario the distance between the centres grows
\* by 0.5 * 0.75 * 15 = 5.625, each entity moving 2.8125 away from the
\* other along the line through the centres.
C3_HalfCorrection ==
    C3_Scenario => C3_Separated(Lit(45, 16), Lit(5, 1) + Lit(45, 8))

C3_Witness ==
    /\ C3_Scenario
    /\ entities[1].position # before.entities[1].position
    /\ entities[2].position # before.entities[2].position

\* C4: solve_collision on two entities with equal positions leaves both
\* positions as they were, and finite.
C4_CoincidentNoOp ==
    (Solved /\ before.entities[1].position = before.entities[2].position)
        => /\ entities = before.entities
           /\ VFinite(entities[1].position)
           /\ VFinite(entities[2].position)

\* C5: right after apply_circle_contraint the entity is at most
\* canvas_radius - radius from constraint_center; an entity that was
\* farther is on that inner circle, on the ray from the centre through its
\* previous position, and an entity that was within it has not moved.  The
\* entity of radius 10 that was 295 right of the centre is 290 right of it.
C5_Confined ==
    last.op = "apply_circle_contraint" =>
        LET e == entities[last.a]
            b == before.entities[last.a]
            limit == canvas_radius - e.radius
            was == VSub(b.position, constraint_center)
            now == VSub(e.position, constraint_center)
        IN  /\ VFinite(e.position)
            /\ Dot(now, now) <= limit * limit
            /\ Dot(was, was) > limit * limit =>
                   /\ Dot(now, now) = limit * limit
                   /\ Cross(now, was) = 0
                   /\ Dot(now, was) > 0
            /\ Dot(was, was) <= limit * limit => e.position = b.position
            /\ (b.radius = Lit(10, 1) /\ was = Vec(Lit(295, 1), 0)) =>
                   now = Vec(Lit(290, 1), 0)
            /\ [e EXCEPT !.position = b.position] = b

C5_Witness ==
    /\ last.op = "apply_circle_contraint"
    /\ before.entities[last.a].radius = Lit(10, 1)
    /\ VSub(before.entities[last.a].position, constraint_center)
           = Vec(Lit(295, 1), 0)
    /\ VSub(entities[last.a].position, constraint_center)
           = Vec(Lit(290, 1), 0)

\* C7: update on an entity with no pending acceleration leaves
\* position - old_position = (the old position - old_position) + GRAVITY,
\* old_position = the old position, and no pending acceleration.
C7_Verlet ==
    last.op = "update" =>
        LET e == entities[last.a]
            b == before.entities[last.a]
        IN  b.acceleration = Vec(0, 0) =>
                /\ VSub(e.position, e.old_position)
                       = VAdd(VSub(b.position, b.old_position), GRAVITY)
                /\ e.old_position = b.position
                /\ e.acceleration = Vec(0, 0)

C7_Witness ==
    /\ last.op = "update"
    /\ before.entities[last.a].acceleration = Vec(0, 0)
    /\ before.entities[last.a].position # before.entities[last.a].old_position
    /\ GRAVITY # Vec(0, 0)

\* C8: solve_collision on two overlapping entities with distinct centres
\* leaves the centres strictly farther apart than they were, and no farther
\* than the sum of the radii: the penetration left is 5/8 of what it was,
\* to within one step 1/One of the lengths, so that repeated calls shrink
\* it geometrically.
C8_NoOvershoot ==
    LET min_dist == before.entities[1].radius + before.entities[2].radius
        was == D2(before.entities[1].position, before.entities[2].position)
    IN  (Solved /\ 0 < was /\ was < min_dist * min_dist) =>
            /\ VFinite(entities[1].position)
            /\ VFinite(entities[2].position)
            /\ D2(entities[1].position, entities[2].position) > was
            /\ D2(entities[1].position, entities[2].position)
                   <= min_dist * min_dist
            /\ Abs(8 * (min_dist - FSqrt(D2(entities[1].position,
                                             entities[2].position)))
                       - 5 * (min_dist - FSqrt(was))) <= 8

C8_Witness ==
    LET min_dist == before.entities[1].radius + before.entities[2].radius
        was == D2(before.entities[1].position, before.entities[2].position)
    IN  /\ Solved
        /\ 0 < was
        /\ was < min_dist * min_dist
        /\ before.entities[1].radius # before.entities[2].radius
        /\ D2(entities[1].position, entities[2].position) > was

====
